---- MODULE Spec2Model ----
(***************************************************************************)
(* Model of cmd/csaf_checker/roliecheck.go: the TLP label order, the       *)
(* rolieLabelChecker, the three phases of processROLIEFeeds, serviceCheck  *)
(* and the slice helpers.                                                  *)
(***************************************************************************)
EXTENDS Integers, Sequences, FiniteSets, TLC

(***************************************************************************)
(* Bounds of the model.                                                    *)
(***************************************************************************)
MaxFeeds == 2    \* feeds in the provider metadata
MaxAdvs == 2     \* distinct advisory documents
MaxFaults == 1   \* anomalies (absent or malformed URLs, collaborator failures) per run
MaxCalls == 3    \* check calls made on one stand-alone rolieLabelChecker
MaxLen == 3      \* length of the slices given to sameContentsSS
MaxRes == 2      \* distinct feed resources seen by serviceCheck

(***************************************************************************)
(* csaf.TLPLabel values.  TLPLabel is a string type, so a label can also   *)
(* be a string that is none of the five constants.                         *)
(***************************************************************************)
TLPLabelUnlabeled == "UNLABELED"
TLPLabelWhite == "WHITE"
TLPLabelGreen == "GREEN"
TLPLabelAmber == "AMBER"
TLPLabelRed == "RED"
OtherLabel == "CLEAR"

TLPLabels ==
  <<TLPLabelUnlabeled, TLPLabelWhite, TLPLabelGreen, TLPLabelAmber, TLPLabelRed>>

LabelSet == {TLPLabels[i] : i \in 1..Len(TLPLabels)}
AnyLabel == LabelSet \cup {OtherLabel}

Nil == "nil"

(***************************************************************************)
(* tlpLevel and tlpLabel.                                                  *)
(***************************************************************************)
tlpLevelFlat(label) ==
  CASE label = TLPLabelWhite -> 1
    [] label = TLPLabelGreen -> 2
    [] label = TLPLabelAmber -> 2
    [] label = TLPLabelRed -> 4
    [] OTHER -> 0

tlpLevel(label) ==
  CASE label = TLPLabelWhite -> 1
    [] label = TLPLabelGreen -> 2
    [] label = TLPLabelAmber -> 3
    [] label = TLPLabelRed -> 4
    [] OTHER -> 0

tlpLabel(label) == IF label # Nil THEN label ELSE TLPLabelUnlabeled

(***************************************************************************)
(* URLs.  A URL string is a record: its written form and the resource it   *)
(* denotes.  url.Parse fails on BadURL.  ResolveReference / makeAbsolute   *)
(* turn a relative form into the absolute form of the same resource.       *)
(***************************************************************************)
NoURL == [form |-> "nil", res |-> 0]
BadURL == [form |-> "bad", res |-> 0]
RelURL(n) == [form |-> "rel", res |-> n]
AbsURL(n) == [form |-> "abs", res |-> n]
ParseOK(u) == u.form # "bad"
ResolveReference(u) == [form |-> "abs", res |-> u.res]
makeAbs(u) == IF u.form = "abs" THEN u ELSE [form |-> "abs", res |-> u.res]

(***************************************************************************)
(* The issue sinks: a sink is the sequence of the diagnostics it was given.*)
(***************************************************************************)
Diag(sev, msg, advisory, advisoryLabel, feedURL, feedLabel) ==
  [sev |-> sev, msg |-> msg, advisory |-> advisory, advisoryLabel |-> advisoryLabel,
   feedURL |-> feedURL, feedLabel |-> feedLabel]

FeedDiag(sev, msg, feedURL) == Diag(sev, msg, NoURL, Nil, feedURL, Nil)

(***************************************************************************)
(* rolieLabelChecker.  A nil *rolieLabelChecker is NilChecker.  The map    *)
(* advisories is a function on all labels; a missing key is the empty set. *)
(***************************************************************************)
NoAdvisories == [l \in AnyLabel |-> {}]

NilChecker ==
  [nil |-> TRUE, feedURL |-> NoURL, feedLabel |-> Nil, advisories |-> NoAdvisories]

NewChecker(feedURL, feedLabel) ==
  [nil |-> FALSE, feedURL |-> feedURL, feedLabel |-> feedLabel,
   advisories |-> NoAdvisories]

\* Variants of check with one slip each: the error case reported as a warning,
\* the unlabeled test inverted, and the first comparison made with <=.
checkDiagsWarnOnly(ca, advisoryLabel, advisory) ==
  LET advisoryRank == tlpLevel(advisoryLabel)
      feedRank == tlpLevel(ca.feedLabel)
  IN  CASE advisoryRank < feedRank ->
             IF advisoryRank = 0
               THEN <<Diag("info", "Found unlabeled advisory in feed",
                           advisory, Nil, ca.feedURL, Nil)>>
               ELSE <<Diag("warn", "Found advisory labled in feed",
                           advisory, advisoryLabel, ca.feedURL, ca.feedLabel)>>
        [] advisoryRank > feedRank ->
             <<Diag("warn", "Found advisory labled in feed",
                    advisory, advisoryLabel, ca.feedURL, ca.feedLabel)>>
        [] OTHER -> <<>>

checkDiagsInfoSwapped(ca, advisoryLabel, advisory) ==
  LET advisoryRank == tlpLevel(advisoryLabel)
      feedRank == tlpLevel(ca.feedLabel)
  IN  CASE advisoryRank < feedRank ->
             IF advisoryRank # 0
               THEN <<Diag("info", "Found unlabeled advisory in feed",
                           advisory, Nil, ca.feedURL, Nil)>>
               ELSE <<Diag("warn", "Found advisory labled in feed",
                           advisory, advisoryLabel, ca.feedURL, ca.feedLabel)>>
        [] advisoryRank > feedRank ->
             <<Diag("error", "must not be listed in feed",
                    advisory, advisoryLabel, ca.feedURL, ca.feedLabel)>>
        [] OTHER -> <<>>

checkDiagsOnEqual(ca, advisoryLabel, advisory) ==
  LET advisoryRank == tlpLevel(advisoryLabel)
      feedRank == tlpLevel(ca.feedLabel)
  IN  CASE advisoryRank <= feedRank ->
             IF advisoryRank = 0
               THEN <<Diag("info", "Found unlabeled advisory in feed",
                           advisory, Nil, ca.feedURL, Nil)>>
               ELSE <<Diag("warn", "Found advisory labled in feed",
                           advisory, advisoryLabel, ca.feedURL, ca.feedLabel)>>
        [] advisoryRank > feedRank ->
             <<Diag("error", "must not be listed in feed",
                    advisory, advisoryLabel, ca.feedURL, ca.feedLabel)>>
        [] OTHER -> <<>>

\* The diagnostics one check call gives to p.badROLIEfeed.
checkDiags(ca, advisoryLabel, advisory) ==
  LET advisoryRank == tlpLevel(advisoryLabel)
      feedRank == tlpLevel(ca.feedLabel)
  IN  CASE advisoryRank < feedRank ->
             IF advisoryRank = 0
               THEN <<Diag("info", "Found unlabeled advisory in feed",
                           advisory, Nil, ca.feedURL, Nil)>>
               ELSE <<Diag("warn", "Found advisory labled in feed",
                           advisory, advisoryLabel, ca.feedURL, ca.feedLabel)>>
        [] advisoryRank > feedRank ->
             <<Diag("error", "must not be listed in feed",
                    advisory, advisoryLabel, ca.feedURL, ca.feedLabel)>>
        [] OTHER -> <<>>

\* Variant of check that records the advisory only in the branches that report.
checkRecordOnMismatch(ca, advisoryLabel, advisory) ==
  IF tlpLevel(advisoryLabel) = tlpLevel(ca.feedLabel)
    THEN ca.advisories
    ELSE [ca.advisories EXCEPT ![advisoryLabel] = @ \cup {advisory}]

\* The map ca.advisories after one check call.
checkRecord(ca, advisoryLabel, advisory) ==
  [ca.advisories EXCEPT ![advisoryLabel] = @ \cup {advisory}]

\* Variant of containsAllKeys with the two maps exchanged.
containsAllKeysSwapped(m1, m2) == \A k \in m2 : k \in m1

\* containsAllKeys returns if m2 contains all keys of m1.
containsAllKeys(m1, m2) == \A k \in m1 : k \in m2

(***************************************************************************)
(* State.                                                                  *)
(***************************************************************************)
VARIABLES
  feeds,                \* the feeds of the provider metadata, in loop order
  pc,                   \* position in the running operation
  idx,                  \* index of the feed the current loop is at
  advisories,           \* processROLIEFeeds: advisories, feed -> files
  labelChecker,         \* p.labelChecker
  todo,                 \* files the running integrity walk has not visited yet
  hasSummary,           \* processROLIEFeeds: hasSummary
  hasUnlabeled,         \* processROLIEFeeds: hasUnlabeled
  hasWhite,             \* processROLIEFeeds: hasWhite
  hasGreen,             \* processROLIEFeeds: hasGreen
  badProviderMetadata,  \* p.badProviderMetadata
  badROLIEfeed,         \* p.badROLIEfeed
  badROLIEservice,      \* p.badROLIEservice
  ret,                  \* result of the operation
  faults,               \* anomalies met so far
  actual,               \* advisory -> TLP label of the advisory document
  observed,             \* history: <<label, advisory URL>> of every check call of the run
  walked,               \* history: feeds whose integrity walk was started
  passed,               \* history: <<label, advisory URL>> passed to the current checker
  ncalls,               \* history: number of check calls
  lastCall,             \* history: arguments of the latest check call
  outcome,              \* history: what the collaborators returned, per feed
  sfeeds,               \* feed hrefs of the loaded ROLIE service document
  slice1,               \* sameContentsSS: slice1
  slice2,               \* sameContentsSS: slice2
  missing               \* sameContentsSS: the returned pair

vars ==
  <<feeds, pc, idx, advisories, labelChecker, todo, hasSummary, hasUnlabeled,
    hasWhite, hasGreen, badProviderMetadata, badROLIEfeed, badROLIEservice, ret,
    faults, actual, observed, walked, passed, ncalls, lastCall, outcome, sfeeds,
    slice1, slice2, missing>>

sinkVars == <<badProviderMetadata, badROLIEfeed, badROLIEservice>>
phase3Vars == <<hasSummary, hasUnlabeled, hasWhite, hasGreen>>
checkVars == <<observed, passed, ncalls, lastCall>>
sliceVars == <<slice1, slice2, missing>>

Advs == 1..MaxAdvs
NilFiles == [nil |-> TRUE, list |-> <<>>]
Files(list) == [nil |-> FALSE, list |-> list]
NoCall == [label |-> Nil, advisory |-> NoURL]
NoOutcome(n) ==
  [fetch |-> [i \in 1..n |-> "none"], walk |-> [i \in 1..n |-> "none"], doc |-> "none"]

\* The slices of advisory files rolieFeedEntries can return: every non-empty
\* set of advisories, listed in ascending order.
RECURSIVE Ascending(_)
Ascending(S) ==
  IF S = {} THEN <<>>
  ELSE LET m == CHOOSE x \in S : \A y \in S : x <= y
       IN  <<RelURL(m)>> \o Ascending(S \ {m})

Listings == {Ascending(S) : S \in SUBSET Advs \ {{}}}

\* The state every operation starts from, but for the input in feeds.
Idle ==
  /\ idx = 1
  /\ advisories = [i \in 1..Len(feeds) |-> NilFiles]
  /\ todo = <<>>
  /\ hasSummary = {}
  /\ hasUnlabeled = FALSE
  /\ hasWhite = FALSE
  /\ hasGreen = FALSE
  /\ badProviderMetadata = <<>>
  /\ badROLIEfeed = <<>>
  /\ badROLIEservice = <<>>
  /\ ret = "running"
  /\ actual = [a \in Advs |-> Nil]
  /\ observed = {}
  /\ walked = {}
  /\ passed = {}
  /\ ncalls = 0
  /\ lastCall = NoCall
  /\ outcome = NoOutcome(Len(feeds))
  /\ sfeeds = <<>>
  /\ slice1 = <<>>
  /\ slice2 = <<>>
  /\ missing = <<>>

(***************************************************************************)
(* processROLIEFeeds.                                                      *)
(***************************************************************************)
FeedChoices(i) ==
  [URL : {NoURL, BadURL, RelURL(i)}, TLPLabel : {Nil} \cup LabelSet]

Anomalies(fs) == Cardinality({i \in 1..Len(fs) : fs[i].URL.form # "rel"})

Init ==
  /\ \E n \in 0..MaxFeeds :
       \E fs \in [1..n -> UNION {FeedChoices(i) : i \in 1..n}] :
         /\ \A i \in 1..n : fs[i] \in FeedChoices(i)
         /\ Anomalies(fs) <= MaxFaults
         /\ feeds = fs
         /\ faults = Anomalies(fs)
  /\ pc = "start"
  /\ labelChecker = NilChecker
  /\ Idle

Return(value) ==
  /\ pc' = "done"
  /\ ret' = value

\* Lines 101-107.
Start ==
  /\ pc = "start"
  /\ \/ /\ pc' = "phase1"
        /\ UNCHANGED <<ret, faults>>
     \/ /\ faults < MaxFaults
        /\ faults' = faults + 1
        /\ Return("error")
  /\ UNCHANGED <<feeds, idx, advisories, labelChecker, todo, phase3Vars, sinkVars,
                 actual, walked, checkVars, sfeeds, sliceVars>>
  /\ UNCHANGED outcome

\* Variant of the feed loops that stops after the first feed.
loopDoneEarly(i) == i > Len(feeds) \/ i > 1

\* Lines 110-111, 137-138 and 187-188: the loops run over all feeds.
loopDone(i) == i > Len(feeds)

\* Variant that treats every error of a collaborator as errContinue.
propagatesNever(err) == FALSE

\* Lines 126-131 and 169-173: an error other than errContinue is returned.
propagates(err) == err # "nil" /\ err # "errContinue"

\* Variant of the skip tests that leaves out the test for nil files.
skipFeedNoFilesTest(feed, files) == feed.URL = NoURL

\* Lines 140-146 and 190-196: feeds without URL or without files are skipped.
skipFeed(feed, files) == feed.URL = NoURL \/ files.nil

\* Phase 1, one feed: lines 111-133.
Phase1Feed ==
  /\ pc = "phase1"
  /\ ~loopDone(idx)
  /\ LET feed == feeds[idx] IN
       \/ /\ feed.URL = NoURL
          /\ idx' = idx + 1
          /\ outcome' = [outcome EXCEPT !.fetch[idx] = "nourl"]
          /\ UNCHANGED <<pc, ret, advisories, badProviderMetadata, faults>>
       \/ /\ feed.URL # NoURL
          /\ ~ParseOK(feed.URL)
          /\ badProviderMetadata' =
               Append(badProviderMetadata,
                      FeedDiag("error", "Invalid URL in feed", feed.URL))
          /\ idx' = idx + 1
          /\ outcome' = [outcome EXCEPT !.fetch[idx] = "badurl"]
          /\ UNCHANGED <<pc, ret, advisories, faults>>
       \/ /\ feed.URL # NoURL
          /\ ParseOK(feed.URL)
          /\ \/ \E advs \in Listings :
                  /\ advisories' = [advisories EXCEPT ![idx] = Files(advs)]
                  /\ idx' = idx + 1
                  /\ outcome' = [outcome EXCEPT !.fetch[idx] = "nil"]
                  /\ UNCHANGED <<pc, ret, faults>>
             \/ /\ faults < MaxFaults
                /\ faults' = faults + 1
                /\ \/ \E advs \in Listings :
                        /\ advisories' =
                             [advisories EXCEPT ![idx] = Files(Append(advs, BadURL))]
                        /\ idx' = idx + 1
                        /\ outcome' = [outcome EXCEPT !.fetch[idx] = "nil"]
                        /\ UNCHANGED <<pc, ret>>
                   \/ /\ advisories' = [advisories EXCEPT ![idx] = NilFiles]
                      /\ idx' = idx + 1
                      /\ outcome' = [outcome EXCEPT !.fetch[idx] = "nil"]
                      /\ UNCHANGED <<pc, ret>>
                   \/ \E err \in {"errContinue", "fatal"} :
                        /\ outcome' = [outcome EXCEPT !.fetch[idx] = err]
                        /\ IF propagates(err)
                             THEN Return("error") /\ UNCHANGED idx
                             ELSE idx' = idx + 1 /\ UNCHANGED <<pc, ret>>
                        /\ UNCHANGED advisories
          /\ UNCHANGED badProviderMetadata
  /\ UNCHANGED <<feeds, labelChecker, todo, phase3Vars, badROLIEfeed, badROLIEservice,
                 actual, walked, checkVars, sfeeds, sliceVars>>

\* Line 134: the Phase 1 loop is over.
Phase1Exit ==
  /\ pc = "phase1"
  /\ loopDone(idx)
  /\ pc' = "phase2"
  /\ idx' = 1
  /\ UNCHANGED <<feeds, advisories, labelChecker, todo, phase3Vars, sinkVars, ret,
                 faults, actual, walked, checkVars, sfeeds, sliceVars>>
  /\ UNCHANGED outcome

\* util.BaseURL of a resolved feed URL: the directory the feed lies in.
BaseURL(u) == [form |-> "base", res |-> u.res]

\* Variant of the assignment at line 163 that keeps an accumulator once made.
walkCheckerKept(feedURL, feedLabel) ==
  IF labelChecker.nil THEN NewChecker(feedURL, feedLabel) ELSE labelChecker

\* Lines 163-167: the accumulator p.labelChecker is given for the walk of a feed.
walkChecker(feedURL, feedLabel) == NewChecker(feedURL, feedLabel)

\* Phase 2, one feed up to the call of p.integrity: lines 138-168.
Phase2Feed ==
  /\ pc = "phase2"
  /\ ~loopDone(idx)
  /\ LET feed == feeds[idx]
         files == advisories[idx]
     IN
       \/ /\ skipFeed(feed, files)
          /\ idx' = idx + 1
          /\ UNCHANGED <<pc, labelChecker, todo, badProviderMetadata, faults, walked,
                         passed, outcome>>
       \/ /\ ~skipFeed(feed, files)
          /\ ~ParseOK(feed.URL)
          /\ badProviderMetadata' =
               Append(badProviderMetadata,
                      FeedDiag("error", "Invalid URL in feed", feed.URL))
          /\ idx' = idx + 1
          /\ UNCHANGED <<pc, labelChecker, todo, faults, walked, passed, outcome>>
       \/ /\ ~skipFeed(feed, files)
          /\ ParseOK(feed.URL)
          /\ LET feedURL == ResolveReference(feed.URL) IN
               \/ /\ faults < MaxFaults
                  /\ faults' = faults + 1
                  /\ badProviderMetadata' =
                       Append(badProviderMetadata,
                              FeedDiag("error", "Bad base path", feedURL))
                  /\ idx' = idx + 1
                  /\ outcome' = [outcome EXCEPT !.walk[idx] = "nobase"]
                  /\ UNCHANGED <<pc, labelChecker, todo, walked, passed>>
               \/ /\ labelChecker' = walkChecker(feedURL, tlpLabel(feed.TLPLabel))
                  /\ todo' = files.list
                  /\ pc' = "integrity"
                  /\ walked' = walked \cup {idx}
                  /\ passed' = {}
                  /\ outcome' = [outcome EXCEPT !.walk[idx] = "running"]
                  /\ UNCHANGED <<idx, badProviderMetadata, faults>>
  /\ UNCHANGED <<feeds, advisories, phase3Vars, badROLIEfeed, badROLIEservice, ret,
                 actual, observed, ncalls, lastCall, sfeeds, sliceVars>>

\* rolieLabelChecker.check: lines 55-95.
check(advisoryLabel, advisory) ==
  /\ labelChecker' =
       [labelChecker EXCEPT
          !.advisories = checkRecord(labelChecker, advisoryLabel, advisory)]
  /\ badROLIEfeed' = badROLIEfeed \o checkDiags(labelChecker, advisoryLabel, advisory)

\* History of the check calls.
noteCall(advisoryLabel, advisory) ==
  /\ passed' = passed \cup {<<advisoryLabel, advisory>>}
  /\ ncalls' = ncalls + 1
  /\ lastCall' = [label |-> advisoryLabel, advisory |-> advisory]

\* p.integrity visits the next file of the feed: it reads the TLP label of the
\* advisory document and hands it to p.labelChecker.check.
\* The label of a document is one of the five TLP labels and stays the same in
\* every walk of the run.
IntegrityVisit ==
  /\ pc = "integrity"
  /\ todo # <<>>
  /\ todo' = Tail(todo)
  /\ LET file == Head(todo) IN
       \/ /\ ~ParseOK(file)
          /\ badProviderMetadata' =
               Append(badProviderMetadata,
                      FeedDiag("error", "Bad URL", labelChecker.feedURL))
          /\ UNCHANGED <<labelChecker, badROLIEfeed, actual, checkVars>>
       \/ /\ ParseOK(file)
          /\ \E label \in LabelSet :
               /\ actual[file.res] \in {Nil, label}
               /\ actual' = [actual EXCEPT ![file.res] = label]
               /\ check(label, makeAbs(file))
               /\ noteCall(label, makeAbs(file))
               /\ observed' = observed \cup {<<label, makeAbs(file)>>}
          /\ UNCHANGED badProviderMetadata
  /\ UNCHANGED <<feeds, pc, idx, advisories, phase3Vars, badROLIEservice, ret, faults,
                 walked, sfeeds, sliceVars>>
  /\ UNCHANGED outcome

\* p.integrity returns: lines 169-174.
IntegrityReturn ==
  /\ pc = "integrity"
  /\ \E err \in {"nil", "errContinue", "fatal"} :
       /\ IF err = "nil"
            THEN todo = <<>> /\ UNCHANGED faults
            ELSE faults < MaxFaults /\ faults' = faults + 1
       /\ outcome' = [outcome EXCEPT !.walk[idx] = err]
       /\ IF propagates(err)
            THEN Return("error") /\ UNCHANGED idx
            ELSE pc' = "phase2" /\ idx' = idx + 1 /\ UNCHANGED ret
  /\ todo' = <<>>
  /\ UNCHANGED <<feeds, advisories, labelChecker, phase3Vars, sinkVars, actual, walked,
                 checkVars, sfeeds, sliceVars>>

\* Lines 175-185: the Phase 2 loop is over, the Phase 3 variables are set up.
Phase2Exit ==
  /\ pc = "phase2"
  /\ loopDone(idx)
  /\ pc' = "phase3"
  /\ idx' = 1
  /\ hasSummary' = {}
  /\ hasUnlabeled' = FALSE
  /\ hasWhite' = FALSE
  /\ hasGreen' = FALSE
  /\ UNCHANGED <<feeds, advisories, labelChecker, todo, sinkVars, ret, faults, actual,
                 walked, checkVars, sfeeds, sliceVars>>
  /\ UNCHANGED outcome

\* The absolute URLs of the files a feed lists: lines 218-227.
Listed(files) ==
  {makeAbs(files.list[k]) : k \in {j \in 1..Len(files.list) : ParseOK(files.list[j])}}

\* The errors of lines 221-225, one per file whose URL does not parse.
ListedErrors(files, feedURL) ==
  [k \in 1..Cardinality({j \in 1..Len(files.list) : ~ParseOK(files.list[j])}) |->
     FeedDiag("error", "Invalid URL in feed", feedURL)]

\* Lines 228-230.
markSummary(reference, listing, label) ==
  IF containsAllKeys(reference, listing) THEN hasSummary \cup {label} ELSE hasSummary

\* Phase 3, one feed: lines 188-231.
Phase3Feed ==
  /\ pc = "phase3"
  /\ ~loopDone(idx)
  /\ LET feed == feeds[idx]
         files == advisories[idx]
         label == tlpLabel(feed.TLPLabel)
     IN
       \/ /\ skipFeed(feed, files)
          /\ idx' = idx + 1
          /\ UNCHANGED <<pc, ret, phase3Vars, badProviderMetadata>>
       \/ /\ ~skipFeed(feed, files)
          /\ ~ParseOK(feed.URL)
          /\ badProviderMetadata' =
               Append(badProviderMetadata,
                      FeedDiag("error", "Invalid URL in feed", feed.URL))
          /\ idx' = idx + 1
          /\ UNCHANGED <<pc, ret, phase3Vars>>
       \/ /\ ~skipFeed(feed, files)
          /\ ParseOK(feed.URL)
          /\ hasUnlabeled' = (hasUnlabeled \/ label = TLPLabelUnlabeled)
          /\ hasWhite' = (hasWhite \/ label = TLPLabelWhite)
          /\ hasGreen' = (hasGreen \/ label = TLPLabelGreen)
          /\ IF labelChecker.nil
               THEN \* line 217 dereferences the nil p.labelChecker
                    /\ Return("panic")
                    /\ UNCHANGED <<idx, hasSummary, badProviderMetadata>>
               ELSE /\ badProviderMetadata' =
                         badProviderMetadata \o ListedErrors(files, feed.URL)
                    /\ hasSummary' =
                         markSummary(labelChecker.advisories[label], Listed(files), label)
                    /\ idx' = idx + 1
                    /\ UNCHANGED <<pc, ret>>
  /\ UNCHANGED <<feeds, advisories, labelChecker, todo, badROLIEfeed, badROLIEservice,
                 faults, actual, walked, checkVars, sfeeds, sliceVars>>
  /\ UNCHANGED outcome

\* Line 234.
noPublicFeed == ~hasWhite /\ ~hasGreen /\ ~hasUnlabeled

\* The error of lines 235-237.
NoPublicDiag ==
  FeedDiag("error", "One ROLIE feed with a TLP:WHITE, TLP:GREEN or unlabeled tlp must exist",
           NoURL)

\* Variant that reports once per feed of the provider metadata.
publicFeedErrorsPerFeed ==
  IF noPublicFeed THEN [i \in 1..Len(feeds) |-> NoPublicDiag] ELSE <<>>

\* Lines 234-238.
publicFeedErrors == IF noPublicFeed THEN <<NoPublicDiag>> ELSE <<>>

SummaryDiag(label) ==
  Diag("warn", "has no accessible listed feed covering all advisories",
       NoURL, Nil, NoURL, label)

\* Variant of the test at line 248 that ignores hasSummary.
lacksSummaryIgnoringCoverage(label) ==
  Cardinality(labelChecker.advisories[label]) > 0

\* Line 248.
lacksSummary(label) ==
  label \notin hasSummary /\ Cardinality(labelChecker.advisories[label]) > 0

\* Lines 241-253, for a p.labelChecker that is not nil.
RECURSIVE summaryWarnings(_)
summaryWarnings(k) ==
  IF k > Len(TLPLabels) THEN <<>>
  ELSE (IF lacksSummary(TLPLabels[k]) THEN <<SummaryDiag(TLPLabels[k])>> ELSE <<>>)
         \o summaryWarnings(k + 1)

\* Lines 234-255: the Phase 3 loop is over.
Phase3Finish ==
  /\ pc = "phase3"
  /\ loopDone(idx)
  /\ IF labelChecker.nil /\ \E k \in 1..Len(TLPLabels) : TLPLabels[k] \notin hasSummary
       THEN \* line 248 dereferences the nil p.labelChecker
            /\ badROLIEfeed' = badROLIEfeed \o publicFeedErrors
            /\ Return("panic")
       ELSE /\ badROLIEfeed' = badROLIEfeed \o publicFeedErrors \o summaryWarnings(1)
            /\ Return("nil")
  /\ UNCHANGED <<feeds, idx, advisories, labelChecker, todo, phase3Vars,
                 badProviderMetadata, badROLIEservice, faults, actual, walked, checkVars,
                 sfeeds, sliceVars>>
  /\ UNCHANGED outcome

Next ==
  \/ Start
  \/ Phase1Feed
  \/ Phase1Exit
  \/ Phase2Feed
  \/ IntegrityVisit
  \/ IntegrityReturn
  \/ Phase2Exit
  \/ Phase3Feed
  \/ Phase3Finish

Spec == Init /\ [][Next]_vars

(***************************************************************************)
(* A rolieLabelChecker on its own: any sequence of check calls on the      *)
(* checker of one feed.                                                    *)
(***************************************************************************)
InitChecker ==
  /\ \E l \in {Nil} \cup AnyLabel :
       /\ feeds = <<[URL |-> RelURL(1), TLPLabel |-> l]>>
       /\ labelChecker = NewChecker(ResolveReference(RelURL(1)), tlpLabel(l))
  /\ pc = "checker"
  /\ faults = 0
  /\ Idle

\* One call of check on the checker, with any label and any advisory.
CheckCall ==
  /\ pc = "checker"
  /\ ncalls < MaxCalls
  /\ \E advisoryLabel \in AnyLabel, a \in Advs :
       /\ check(advisoryLabel, AbsURL(a))
       /\ noteCall(advisoryLabel, AbsURL(a))
  /\ UNCHANGED <<feeds, pc, idx, advisories, todo, phase3Vars, badProviderMetadata,
                 badROLIEservice, ret, faults, actual, observed, walked, sfeeds,
                 sliceVars>>
  /\ UNCHANGED outcome

NextChecker == CheckCall

SpecChecker == InitChecker /\ [][NextChecker]_vars

(***************************************************************************)
(* sameContentsSS and containsAllSS.                                       *)
(***************************************************************************)
\* Variant of containsAllSS that returns out of the loop on the first element.
containsAllSSFirst(slice, str) == Len(slice) > 0 /\ slice[1] = str

\* containsAllSS checks if a slice of strings contains a string.
containsAllSS(slice, str) == \E i \in 1..Len(slice) : slice[i] = str

\* Variant of sameContentsSS whose second loop tests slice2 against itself.
sameContentsSSSelf(s1, s2) ==
  <<SelectSeq(s1, LAMBDA e1 : ~containsAllSS(s2, e1)),
    SelectSeq(s2, LAMBDA e2 : ~containsAllSS(s2, e2))>>

\* sameContentsSS: lines 334-348.
sameContentsSS(s1, s2) ==
  <<SelectSeq(s1, LAMBDA e1 : ~containsAllSS(s2, e1)),
    SelectSeq(s2, LAMBDA e2 : ~containsAllSS(s1, e2))>>

Strs == {"a", "b", "c", "d"}

SeqsUpTo(S, n) == UNION {[1..k -> S] : k \in 0..n}

InitSS ==
  /\ feeds = <<>>
  /\ pc = "slices"
  /\ faults = 0
  /\ idx = 1
  /\ advisories = <<>>
  /\ labelChecker = NilChecker
  /\ todo = <<>>
  /\ hasSummary = {}
  /\ hasUnlabeled = FALSE
  /\ hasWhite = FALSE
  /\ hasGreen = FALSE
  /\ badProviderMetadata = <<>>
  /\ badROLIEfeed = <<>>
  /\ badROLIEservice = <<>>
  /\ ret = "running"
  /\ actual = [a \in Advs |-> Nil]
  /\ observed = {}
  /\ walked = {}
  /\ passed = {}
  /\ ncalls = 0
  /\ lastCall = NoCall
  /\ outcome = NoOutcome(0)
  /\ sfeeds = <<>>
  /\ slice1 \in SeqsUpTo(Strs, MaxLen)
  /\ slice2 \in SeqsUpTo(Strs, MaxLen)
  /\ missing = <<>>

SameContents ==
  /\ pc = "slices"
  /\ missing' = sameContentsSS(slice1, slice2)
  /\ pc' = "done"
  /\ UNCHANGED <<feeds, idx, advisories, labelChecker, todo, phase3Vars, sinkVars, ret,
                 faults, actual, walked, checkVars, sfeeds, slice1, slice2>>
  /\ UNCHANGED outcome

NextSS == SameContents

SpecSS == InitSS /\ [][NextSS]_vars

(***************************************************************************)
(* serviceCheck.                                                           *)
(***************************************************************************)
FeedURLs == {RelURL(r) : r \in 1..MaxRes} \cup {AbsURL(r) : r \in 1..MaxRes}

ServiceDiag(sev, msg, list) == [sev |-> sev, msg |-> msg, list |-> list]

InitService ==
  /\ \E fs \in SeqsUpTo([URL : {NoURL} \cup FeedURLs, TLPLabel : {Nil}], MaxFeeds) :
       feeds = fs
  /\ pc = "service"
  /\ faults = 0
  /\ labelChecker = NilChecker
  /\ Idle

\* Variant that reports every failure to get the document as an error.
loadFailureDiagAllErrors(kind) ==
  ServiceDiag("error",
              IF kind = "transport" THEN "Cannot fetch rolie service document"
              ELSE IF kind = "status" THEN "Fetching failed"
              ELSE "Loading ROLIE service document failed", <<>>)

\* Lines 285-303: the diagnostic of each way the document can fail to arrive.
loadFailureDiag(kind) ==
  IF kind = "transport"
    THEN ServiceDiag("error", "Cannot fetch rolie service document", <<>>)
  ELSE IF kind = "status"
    THEN ServiceDiag("warn", "Fetching failed", <<>>)
  ELSE ServiceDiag("error", "Loading ROLIE service document failed", <<>>)

\* Lines 270-303: the service document is fetched and loaded.
ServiceLoad ==
  /\ pc = "service"
  /\ \/ \* url.Parse(p.pmdURL) or util.BaseURL fails
        /\ Return("error")
        /\ outcome' = [outcome EXCEPT !.doc = "pmdurl"]
        /\ UNCHANGED <<badROLIEservice, sfeeds>>
     \/ \* client.Get fails, the status code is not 200, or the load fails
        \E kind \in {"transport", "status", "parse"} :
          /\ badROLIEservice' = Append(badROLIEservice, loadFailureDiag(kind))
          /\ outcome' = [outcome EXCEPT !.doc = kind]
          /\ Return("errContinue")
          /\ UNCHANGED sfeeds
     \/ \* the document is loaded; line 306-312 flatten its feed hrefs
        /\ \E hrefs \in SeqsUpTo(FeedURLs, MaxFeeds) : sfeeds' = hrefs
        /\ outcome' = [outcome EXCEPT !.doc = "nil"]
        /\ pc' = "reconcile"
        /\ UNCHANGED <<badROLIEservice, ret>>
  /\ UNCHANGED <<feeds, idx, advisories, labelChecker, todo, phase3Vars,
                 badProviderMetadata, badROLIEfeed, faults, actual, walked, checkVars,
                 sliceVars>>

\* Lines 313-317.
ffeedsOf(fs) == [i \in 1..Len(fs) |-> fs[i].URL]

\* Lines 320-325.
serviceErrors(m) ==
  (IF Len(m[1]) # 0
     THEN <<ServiceDiag("error", "contains nonexistent feed entries", m[1])>>
     ELSE <<>>)
  \o (IF Len(m[2]) # 0
        THEN <<ServiceDiag("error", "is missing feed entries", m[2])>>
        ELSE <<>>)

\* Lines 313-327: the feed lists are compared.
ServiceReconcile ==
  /\ pc = "reconcile"
  /\ IF \E i \in 1..Len(feeds) : feeds[i].URL = NoURL
       THEN \* line 315 dereferences the nil s.URL
            /\ Return("panic")
            /\ UNCHANGED badROLIEservice
       ELSE /\ badROLIEservice' =
                 badROLIEservice \o serviceErrors(sameContentsSS(sfeeds, ffeedsOf(feeds)))
            /\ Return("nil")
  /\ UNCHANGED <<feeds, idx, advisories, labelChecker, todo, phase3Vars,
                 badProviderMetadata, badROLIEfeed, faults, actual, walked, checkVars,
                 sfeeds, sliceVars>>
  /\ UNCHANGED outcome

NextService ==
  \/ ServiceLoad
  \/ ServiceReconcile

SpecService == InitService /\ [][NextService]_vars

(***************************************************************************)
(* Properties.                                                             *)
(***************************************************************************)
Range(q) == {q[i] : i \in 1..Len(q)}
Count(q, d) == Cardinality({i \in 1..Len(q) : q[i] = d})

\* Feed i was fetched in Phase 1: it has a URL and a non-nil slice of files.
Fetched(i) == feeds[i].URL.form = "rel" /\ ~advisories[i].nil
DeclaredLabel(i) == tlpLabel(feeds[i].TLPLabel)

\* The advisory URLs classified with label L in any walk of the run.
ObservedWith(L) == {c[2] : c \in {d \in observed : d[1] = L}}

ReturnedNormally == pc = "done" /\ ret = "nil"

\* C1: after processROLIEFeeds returns normally, every label L with at least one
\* advisory classified L in some Phase 2 walk and without a completeness warning has a
\* fetched feed declared L whose listing contains every advisory URL observed with L
\* in all the walks.
C1_CoveredAcrossFeeds ==
  ReturnedNormally =>
    \A L \in LabelSet :
      (ObservedWith(L) # {} /\ SummaryDiag(L) \notin Range(badROLIEfeed)) =>
        \E i \in 1..Len(feeds) :
          /\ Fetched(i)
          /\ DeclaredLabel(i) = L
          /\ ObservedWith(L) \subseteq Listed(advisories[i])

\* A step that is one call of check, and what the call gave to the sinks.
IsCheckCall == ncalls' = ncalls + 1
Emitted == SubSeq(badROLIEfeed', Len(badROLIEfeed) + 1, Len(badROLIEfeed'))
OnlyFeedSinkGrows ==
  /\ SubSeq(badROLIEfeed', 1, Len(badROLIEfeed)) = badROLIEfeed
  /\ UNCHANGED <<badProviderMetadata, badROLIEservice>>
CalledLabel == lastCall'.label
FeedLabelOfChecker == tlpLabel(feeds[1].TLPLabel)
FeedURLOfChecker == ResolveReference(feeds[1].URL)

\* C2: a check call with rank(A) > rank(F) emits exactly one diagnostic, an error
\* naming the advisory, A, the feed URL and F, and no info and no warning.
C2_ErrorWhenMoreRestricted ==
  [][(IsCheckCall /\ tlpLevel(CalledLabel) > tlpLevel(FeedLabelOfChecker)) =>
       /\ OnlyFeedSinkGrows
       /\ Len(Emitted) = 1
       /\ Emitted[1].sev = "error"
       /\ Emitted[1].advisory = lastCall'.advisory
       /\ Emitted[1].advisoryLabel = CalledLabel
       /\ Emitted[1].feedURL = FeedURLOfChecker
       /\ Emitted[1].feedLabel = FeedLabelOfChecker]_vars

C2_Witness ==
  /\ pc = "checker"
  /\ ncalls > 0
  /\ tlpLevel(lastCall.label) > tlpLevel(FeedLabelOfChecker)
  /\ Len(badROLIEfeed) > 0
  /\ badROLIEfeed[Len(badROLIEfeed)].sev = "error"

\* C3: a check call with rank(A) < rank(F) emits exactly one diagnostic and no
\* error: an info if and only if rank(A) = 0, otherwise a warning.
C3_InfoOrWarnWhenLessRestricted ==
  [][(IsCheckCall /\ tlpLevel(CalledLabel) < tlpLevel(FeedLabelOfChecker)) =>
       /\ OnlyFeedSinkGrows
       /\ Len(Emitted) = 1
       /\ Emitted[1].sev \in {"info", "warn"}
       /\ (Emitted[1].sev = "info") <=> (tlpLevel(CalledLabel) = 0)]_vars

C3_Witness ==
  /\ pc = "checker"
  /\ ncalls >= 2
  /\ \E i, j \in 1..Len(badROLIEfeed) :
       /\ badROLIEfeed[i].sev = "info"
       /\ badROLIEfeed[j].sev = "warn"
       /\ tlpLevel(badROLIEfeed[j].advisoryLabel) > 0
       /\ tlpLevel(badROLIEfeed[j].advisoryLabel) < tlpLevel(FeedLabelOfChecker)

\* C4: a check call with rank(A) = rank(F), an absent or unrecognized label on
\* either side ranking as Unlabeled, emits no diagnostic of any severity.
C4_SilentWhenEqual ==
  [][(IsCheckCall /\ tlpLevel(CalledLabel) = tlpLevel(FeedLabelOfChecker)) =>
       UNCHANGED <<badROLIEfeed, badProviderMetadata, badROLIEservice>>]_vars

C4_Witness ==
  /\ pc = "checker"
  /\ ncalls > 0
  /\ feeds[1].TLPLabel = Nil
  /\ lastCall.label = OtherLabel
  /\ badROLIEfeed = <<>>

\* The place of a label in the order Unlabeled < White < Green < Amber < Red;
\* 1, the place of Unlabeled, for a label that is none of the five.
Place(label) ==
  IF label \in LabelSet THEN CHOOSE k \in 1..Len(TLPLabels) : TLPLabels[k] = label ELSE 1

\* C5: tlpLevel takes the values 0, 1, 2, 3, 4 along Unlabeled < White < Green <
\* Amber < Red, hence is strictly increasing, and an absent feed label, mapped
\* through tlpLabel, and any unrecognized label rank 0.
C5_RankValues ==
  LET F == tlpLabel(feeds[1].TLPLabel)
      A == lastCall.label
  IN  /\ tlpLevel(F) = Place(F) - 1
      /\ tlpLevel(A) = Place(A) - 1
      /\ (A \in LabelSet /\ F \in LabelSet /\ Place(A) < Place(F)) =>
           tlpLevel(A) < tlpLevel(F)
      /\ feeds[1].TLPLabel = Nil => tlpLevel(F) = 0
      /\ A \notin LabelSet => tlpLevel(A) = 0

C5_Witness ==
  /\ pc = "checker"
  /\ feeds[1].TLPLabel = TLPLabelRed
  /\ lastCall.label = TLPLabelAmber
  /\ tlpLevel(lastCall.label) = 3
  /\ tlpLevel(labelChecker.feedLabel) = 4

\* C6: after any sequence of check calls on one checker, advisories[L] is exactly
\* the set of advisory URLs passed with label L, whatever each call reported, and
\* a call with label L leaves the sets of the other labels unchanged.
C6_InventoryIsWhatWasPassed ==
  /\ [](\A L \in AnyLabel :
          labelChecker.advisories[L] = {c[2] : c \in {d \in passed : d[1] = L}})
  /\ [][IsCheckCall =>
          \A L \in AnyLabel \ {CalledLabel} :
            labelChecker'.advisories[L] = labelChecker.advisories[L]]_vars

C6_Witness ==
  /\ pc = "checker"
  /\ ncalls = MaxCalls
  /\ Cardinality(passed) >= 2
  /\ \E c \in passed : tlpLevel(c[1]) = tlpLevel(labelChecker.feedLabel)
  /\ \E c \in passed : tlpLevel(c[1]) > tlpLevel(labelChecker.feedLabel)
  /\ \A c \in passed : c[2] \in labelChecker.advisories[c[1]]

\* The reference inventory Phase 3 compares the listing of feed i with.
Reference(i) == labelChecker.advisories[DeclaredLabel(i)]
StrictSubset(a, b) == a \subseteq b /\ a # b

\* C7: in the Phase 3 audit of a fetched feed, a listing that is a strict subset
\* of the reference inventory of the feed's label does not mark the label as
\* having a summary feed; a listing that is equal to or a superset of it, an
\* empty reference inventory included, marks the label.
C7_SummaryIffSuperset ==
  [][(pc = "phase3" /\ idx <= Len(feeds) /\ Fetched(idx) /\ ~labelChecker.nil) =>
       /\ StrictSubset(Listed(advisories[idx]), Reference(idx)) =>
            hasSummary' = hasSummary
       /\ Reference(idx) \subseteq Listed(advisories[idx]) =>
            hasSummary' = hasSummary \cup {DeclaredLabel(idx)}]_vars

C7_Witness ==
  /\ ReturnedNormally
  /\ \E i, j \in 1..Len(feeds) :
       /\ Fetched(i)
       /\ Fetched(j)
       /\ StrictSubset(Listed(advisories[i]), Reference(i))
       /\ Reference(j) # {}
       /\ Reference(j) \subseteq Listed(advisories[j])
       /\ DeclaredLabel(j) \in hasSummary

PublicLabels == {TLPLabelUnlabeled, TLPLabelWhite, TLPLabelGreen}
NoPublicFeedDeclared == \A i \in 1..Len(feeds) : DeclaredLabel(i) \notin PublicLabels

\* The run went past the Phase 3 loop.
PastPhase3Loop == pc = "done" /\ ret # "error" /\ idx > Len(feeds)

\* C8: when no feed of the provider metadata is declared Unlabeled (or has no
\* label), White or Green, a run that reaches the end of Phase 3 emits exactly one
\* 'no public feed' error, whatever the number of Amber and Red feeds.
C8_OneNoPublicFeedError ==
  (PastPhase3Loop /\ NoPublicFeedDeclared) => Count(badROLIEfeed, NoPublicDiag) = 1

C8_Witness ==
  /\ ReturnedNormally
  /\ Len(feeds) = MaxFeeds
  /\ \A i \in 1..Len(feeds) : Fetched(i) /\ DeclaredLabel(i) \in {TLPLabelAmber, TLPLabelRed}
  /\ Count(badROLIEfeed, NoPublicDiag) = 1

\* The feed URLs of the provider metadata that exist.
MetadataURLs == {feeds[i].URL : i \in {j \in 1..Len(feeds) : feeds[j].URL # NoURL}}
Loaded == pc = "done" /\ ret \in {"nil", "panic"}
Reported(msg) == \E d \in Range(badROLIEservice) : d.sev = "error" /\ d.msg = msg

\* C9: once the service document is loaded, serviceCheck emits the 'nonexistent
\* feed entries' error if and only if some service-document feed URL is absent
\* from the provider metadata feeds, and the 'missing feed entries' error if and
\* only if some provider-metadata feed URL is absent from the service document.
C9_BothDirectionsReported ==
  Loaded =>
    /\ Reported("contains nonexistent feed entries") <=>
         (\E u \in Range(sfeeds) : u \notin MetadataURLs)
    /\ Reported("is missing feed entries") <=>
         (\E u \in MetadataURLs : u \notin Range(sfeeds))

\* C10: sameContentsSS(s1, s2) returns (m1, m2), m1 holding exactly the elements
\* of s1 that do not occur in s2 and m2 exactly those of s2 that do not occur in
\* s1; identical inputs give ([], []), disjoint inputs give all elements on their
\* side, and ([a,b,c], [b,c,d]) gives ([a], [d]).
C10_MissingOnEachSide ==
  pc = "done" =>
    /\ Range(missing[1]) = Range(slice1) \ Range(slice2)
    /\ Range(missing[2]) = Range(slice2) \ Range(slice1)
    /\ slice1 = slice2 => missing = <<<<>>, <<>>>>
    /\ Range(slice1) \cap Range(slice2) = {} => missing = <<slice1, slice2>>
    /\ (slice1 = <<"a", "b", "c">> /\ slice2 = <<"b", "c", "d">>) =>
         missing = <<<<"a">>, <<"d">>>>

C10_Witness ==
  /\ pc = "done"
  /\ slice1 = <<"a", "b", "c">>
  /\ slice2 = <<"b", "c", "d">>
  /\ missing = <<<<"a">>, <<"d">>>>

Occurrences(q, e) == Cardinality({i \in 1..Len(q) : q[i] = e})
NoDuplicates(q) == \A e \in Range(q) : Occurrences(q, e) = 1
SameAsSetsAndLength(m, r) ==
  /\ Range(m[1]) = Range(r[1])
  /\ Range(m[2]) = Range(r[2])
  /\ Len(m[1]) = Len(r[1])
  /\ Len(m[2]) = Len(r[2])
SameAsSets(m, r) == Range(m[1]) = Range(r[1]) /\ Range(m[2]) = Range(r[2])

\* The slices that list the elements of q with two of them exchanged, and those
\* that list one of them once more.  Every reordering is a chain of exchanges.
Reordered(q) ==
  {[q EXCEPT ![i] = q[j], ![j] = q[i]] : i \in 1..Len(q), j \in 1..Len(q)}
Duplicated(q) == {Append(q, q[i]) : i \in 1..Len(q)}

\* C11 as stated: each returned sequence holds every reported element at most
\* once, and permuting or duplicating elements of either input changes neither
\* returned collection, as a set and in length.
C11_DuplicatesCollapse ==
  pc = "done" =>
    /\ NoDuplicates(missing[1])
    /\ NoDuplicates(missing[2])
    /\ \A t \in Reordered(slice1) \cup Duplicated(slice1) :
         SameAsSetsAndLength(missing, sameContentsSS(t, slice2))
    /\ \A t \in Reordered(slice2) \cup Duplicated(slice2) :
         SameAsSetsAndLength(missing, sameContentsSS(slice1, t))

\* C11 amended: an element is returned once for each of its occurrences in the
\* input it comes from; permuting either input changes neither returned collection,
\* as a set and in length; duplicating elements changes neither as a set.
C11_OrderIndependent ==
  pc = "done" =>
    /\ \A e \in Strs :
         /\ Occurrences(missing[1], e) =
              (IF e \in Range(slice2) THEN 0 ELSE Occurrences(slice1, e))
         /\ Occurrences(missing[2], e) =
              (IF e \in Range(slice1) THEN 0 ELSE Occurrences(slice2, e))
    /\ \A t \in Reordered(slice1) :
         SameAsSetsAndLength(missing, sameContentsSS(t, slice2))
    /\ \A t \in Reordered(slice2) :
         SameAsSetsAndLength(missing, sameContentsSS(slice1, t))
    /\ \A t \in Duplicated(slice1) : SameAsSets(missing, sameContentsSS(t, slice2))
    /\ \A t \in Duplicated(slice2) : SameAsSets(missing, sameContentsSS(slice1, t))

C11_Witness ==
  /\ pc = "done"
  /\ slice1 = <<"a", "b", "a">>
  /\ slice2 = <<"c", "b">>
  /\ missing = <<<<"a", "a">>, <<"c">>>>

\* The resource a feed URL denotes, whatever its written form.
Resolved(u) == ResolveReference(u)

\* The feed URLs the reconciliation errors list.
ReportedURLs == UNION {Range(d.list) : d \in Range(badROLIEservice)}

\* C12: a service-document feed URL and a provider-metadata feed URL that denote
\* the same resource, one written relative and the other absolute, are never
\* reported in either mismatch list.
C12_SameResourceNeverReported ==
  (pc = "done" /\ ret = "nil") =>
    \A u \in Range(sfeeds), v \in MetadataURLs :
      (Resolved(u) = Resolved(v) /\ u.form # v.form) =>
        (u \notin ReportedURLs /\ v \notin ReportedURLs)

\* The feeds whose Phase 1 fetch failed recoverably: a malformed feed URL or the
\* errContinue sentinel of rolieFeedEntries.
FailedRecoverably ==
  {i \in 1..Len(feeds) : outcome.fetch[i] \in {"badurl", "errContinue"}}
FatalFetch == \E i \in 1..Len(feeds) : outcome.fetch[i] = "fatal"
FatalWalk == \E i \in 1..Len(feeds) : outcome.walk[i] = "fatal"

\* The Phase 1 loop ran to its end.
PastPhase1 == pc \in {"phase2", "integrity", "phase3"} \/ (pc = "done" /\ ret # "error")

\* The step is the recoverable Phase 1 failure of the feed at idx.
FailsRecoverablyNow ==
  /\ pc = "phase1"
  /\ idx <= Len(feeds)
  /\ outcome.fetch[idx] = "none"
  /\ outcome'.fetch[idx] \in {"badurl", "errContinue"}

\* C13: a recoverable Phase 1 failure of a feed (malformed URL, or errContinue
\* from rolieFeedEntries) does not end the run: Phase 1 goes on with the next
\* feed and every feed is tried unless a fatal error comes; the failed feed has no
\* listing, gets no integrity walk and no check call, and its Phase 3 turn
\* changes neither the summary labels nor the public-tier flags.
C13_FailedFeedExcluded ==
  /\ [](\A i \in FailedRecoverably :
          /\ advisories[i].nil
          /\ i \notin walked
          /\ outcome.walk[i] = "none")
  /\ [](PastPhase1 => \A i \in 1..Len(feeds) : outcome.fetch[i] # "none")
  /\ [][/\ FailsRecoverablyNow => (pc' = "phase1" /\ idx' = idx + 1 /\ ret' = ret)
        /\ (IsCheckCall \/ pc' = "integrity") => idx \notin FailedRecoverably
        /\ (pc = "phase3" /\ idx \in FailedRecoverably) =>
              (UNCHANGED phase3Vars /\ pc' = "phase3" /\ idx' = idx + 1)]_vars

C13_Witness ==
  /\ ReturnedNormally
  /\ \E i, j \in 1..Len(feeds) :
       /\ i < j
       /\ i \in FailedRecoverably
       /\ outcome.fetch[j] = "nil"
       /\ j \in walked
       /\ DeclaredLabel(j) \in hasSummary

CompletenessDiags == {NoPublicDiag} \cup {SummaryDiag(l) : l \in LabelSet}
NoPhase3Output ==
  /\ Range(badROLIEfeed) \cap CompletenessDiags = {}
  /\ hasSummary = {}
  /\ ~hasUnlabeled /\ ~hasWhite /\ ~hasGreen

\* C14: once rolieFeedEntries (Phase 1) or the integrity walk (Phase 2) of a
\* feed has answered with an error other than errContinue, the run has returned
\* an error and takes no further step: no later feed is fetched or walked, a
\* fatal fetch leaves every feed unwalked, and Phase 3 has produced nothing,
\* neither the 'no public feed' error nor a completeness warning.
C14_FatalErrorReturnsAtOnce ==
  /\ []((FatalFetch \/ FatalWalk) =>
         /\ pc = "done"
         /\ ret = "error"
         /\ NoPhase3Output
         /\ \A i \in 1..Len(feeds) :
              /\ outcome.fetch[i] = "fatal" =>
                   /\ \A j \in 1..Len(feeds) : j > i => outcome.fetch[j] = "none"
                   /\ \A j \in 1..Len(feeds) : outcome.walk[j] = "none"
                   /\ walked = {}
              /\ outcome.walk[i] = "fatal" =>
                   /\ \A j \in 1..Len(feeds) : j > i => outcome.walk[j] = "none"
                   /\ \A j \in walked : j <= i)
  /\ [][pc # "done"]_vars

C14_Witness ==
  /\ Len(feeds) = MaxFeeds
  /\ outcome.walk[1] = "fatal"
  /\ outcome.fetch[2] = "nil"
  /\ ~advisories[2].nil
  /\ 2 \notin walked
  /\ ncalls > 0
  /\ ret = "error"

\* The scenario: feed g is declared Green and lists X and Y, feed a is declared
\* Amber and lists Y; X is a Green document and Y an Amber one; every fetch and
\* every walk succeeded.
AdvX == RelURL(1)
AdvY == RelURL(2)
GreenAmberScenario(g, a) ==
  /\ Len(feeds) = 2
  /\ {g, a} = {1, 2}
  /\ feeds[g].TLPLabel = TLPLabelGreen
  /\ feeds[a].TLPLabel = TLPLabelAmber
  /\ advisories[g] = Files(<<AdvX, AdvY>>)
  /\ advisories[a] = Files(<<AdvY>>)
  /\ actual[1] = TLPLabelGreen
  /\ actual[2] = TLPLabelAmber
  /\ \A i \in 1..2 : outcome.fetch[i] = "nil" /\ outcome.walk[i] = "nil"

ErrorsOf(sink) == {k \in 1..Len(sink) : sink[k].sev = "error"}

\* C15: in the scenario, in either feed order, a run that returns normally has
\* given the feed sink exactly one error, the one of check for Y in the green
\* feed, and nothing else: no completeness warning for Amber, none for Green,
\* and no 'no public feed' error.
C15_GreenAmberScenario ==
  \A g, a \in 1..2 :
    (ReturnedNormally /\ GreenAmberScenario(g, a)) =>
      /\ Cardinality(ErrorsOf(badROLIEfeed)) = 1
      /\ badROLIEfeed =
           <<Diag("error", "must not be listed in feed", makeAbs(AdvY), TLPLabelAmber,
                  ResolveReference(feeds[g].URL), TLPLabelGreen)>>
      /\ SummaryDiag(TLPLabelAmber) \notin Range(badROLIEfeed)
      /\ SummaryDiag(TLPLabelGreen) \notin Range(badROLIEfeed)
      /\ NoPublicDiag \notin Range(badROLIEfeed)

C15_Witness ==
  /\ ReturnedNormally
  /\ GreenAmberScenario(2, 1)
  /\ hasSummary = {TLPLabelGreen, TLPLabelAmber}
  /\ Len(badROLIEfeed) = 1

ReconciliationMsgs ==
  {"contains nonexistent feed entries", "is missing feed entries"}
DocFailed == outcome.doc \in {"transport", "status", "parse"}

\* C16: when the service document cannot be fetched (transport error), comes
\* with a status other than 200, or cannot be parsed, serviceCheck has given the
\* service sink exactly one diagnostic, a warning for the status and an error
\* otherwise, none of the two reconciliation errors, has returned errContinue,
\* and nothing else was reported.
C16_FetchFailureIsRecoverable ==
  /\ DocFailed =>
       /\ pc = "done"
       /\ ret = "errContinue"
       /\ Len(badROLIEservice) = 1
       /\ badROLIEservice[1].sev = (IF outcome.doc = "status" THEN "warn" ELSE "error")
       /\ badROLIEservice[1].msg \notin ReconciliationMsgs
       /\ badProviderMetadata = <<>>
       /\ badROLIEfeed = <<>>
  /\ ret = "errContinue" => DocFailed

C16_Witness ==
  /\ outcome.doc = "status"
  /\ ret = "errContinue"
  /\ Len(feeds) > 0
  /\ badROLIEservice = <<ServiceDiag("warn", "Fetching failed", <<>>)>>

CompletenessWarnings == {SummaryDiag(l) : l \in LabelSet}

\* C17: a run in which no collaborator reported a fatal error returns nil, and
\* when no label accumulator was created in Phase 2 (no feeds, no feed with a
\* URL, or no feed fetched) it ends with the 'no public feed' error and without
\* completeness warning.
C17_ReturnsNormallyWhenRecoverable ==
  (pc = "done" /\ ret # "error") =>
    /\ ret = "nil"
    /\ walked = {} =>
         /\ Count(badROLIEfeed, NoPublicDiag) = 1
         /\ Range(badROLIEfeed) \cap CompletenessWarnings = {}

WalkStarted == pc = "integrity" \/ walked # {} \/ ncalls > 0
WalkOver(i) == outcome.walk[i] \in {"nil", "errContinue", "nobase"}
CompletenessDecided ==
  \/ hasSummary # {}
  \/ hasUnlabeled \/ hasWhite \/ hasGreen
  \/ Range(badROLIEfeed) \cap CompletenessDiags # {}

\* C18: whenever an integrity walk has started or a check call was made, the
\* fetch of every feed is over; whenever a completeness decision was made (a
\* label marked as having a summary feed, a public-tier flag set, the 'no
\* public feed' error or a completeness warning emitted), no walk is running
\* and every fetched feed has had its Phase 2 turn.
C18_PhasesInOrder ==
  /\ WalkStarted => \A i \in 1..Len(feeds) : outcome.fetch[i] \notin {"none", "fatal"}
  /\ CompletenessDecided =>
       /\ pc \in {"phase3", "done"}
       /\ todo = <<>>
       /\ \A i \in 1..Len(feeds) : Fetched(i) => WalkOver(i)

C18_Witness ==
  /\ ReturnedNormally
  /\ walked = 1..MaxFeeds
  /\ ncalls >= MaxFeeds
  /\ hasSummary # {}
  /\ Range(badROLIEfeed) \cap CompletenessWarnings # {}

WalkStarts == pc = "phase2" /\ pc' = "integrity"
FreshFor(ca, i) ==
  /\ ~ca.nil
  /\ ca.feedURL = ResolveReference(feeds[i].URL)
  /\ ca.feedLabel = DeclaredLabel(i)
  /\ \A l \in AnyLabel : ca.advisories[l] = {}
PastPhase2 == pc = "phase3" \/ (pc = "done" /\ ret # "error")

\* C19 as stated: every fetched feed is walked, each walk starts with an empty
\* accumulator carrying the URL and the declared label of its feed, and every
\* diagnostic of check during the walk of a feed names that feed's URL and
\* declared label.
C19_EveryDiagnosticNamesFeed ==
  /\ [](PastPhase2 => \A i \in 1..Len(feeds) : Fetched(i) => i \in walked)
  /\ [][/\ WalkStarts => FreshFor(labelChecker', idx)
        /\ IsCheckCall =>
             \A d \in Range(Emitted) :
               /\ d.feedURL = ResolveReference(feeds[idx].URL)
               /\ d.feedLabel = DeclaredLabel(idx)]_vars

\* C19, amended: every fetched feed is walked unless its base path cannot be
\* derived; each walk starts with an empty accumulator carrying the URL and the
\* declared label of its feed; every diagnostic of check during the walk of a
\* feed names that feed's URL, a warning or an error names its declared label
\* too, and an info names no feed label at all.
C19_FreshAccumulatorPerWalk ==
  /\ [](PastPhase2 =>
          \A i \in 1..Len(feeds) :
            Fetched(i) => (i \in walked \/ outcome.walk[i] = "nobase"))
  /\ [][/\ WalkStarts => (Fetched(idx) /\ FreshFor(labelChecker', idx) /\ passed' = {})
        /\ IsCheckCall =>
             \A d \in Range(Emitted) :
               /\ d.feedURL = ResolveReference(feeds[idx].URL)
               /\ d.sev \in {"warn", "error"} => d.feedLabel = DeclaredLabel(idx)
               /\ d.sev = "info" => d.feedLabel = Nil]_vars

C19_Witness ==
  /\ pc = "integrity"
  /\ idx = 2
  /\ 1 \in walked
  /\ DeclaredLabel(1) # DeclaredLabel(2)
  /\ \E k \in 1..Len(badROLIEfeed) :
       /\ badROLIEfeed[k].feedURL = ResolveReference(feeds[1].URL)
       /\ badROLIEfeed[k].sev = "warn"
  /\ \E k \in 1..Len(badROLIEfeed) :
       /\ badROLIEfeed[k].feedURL = ResolveReference(feeds[2].URL)
       /\ badROLIEfeed[k].feedLabel = DeclaredLabel(2)
       /\ badROLIEfeed[k].sev = "error"

\* C20: for every provider-metadata feed collection, one with a feed whose URL
\* is absent included, serviceCheck returns nil, errContinue or an error, and a
\* feed without URL contributes nothing to either mismatch list.
C20_NoCrashOnAbsentURL ==
  pc = "done" =>
    /\ ret \in {"nil", "errContinue", "error"}
    /\ NoURL \notin ReportedURLs
====
